---- MODULE Spec2Model ----
(***************************************************************************)
(* A model of app/app.py: the watch-history store (track_view), the        *)
(* range-aware /stream handler (stream_media) and the /transcode handler   *)
(* with its streaming generator and the encoder process it owns            *)
(* (transcode_stream, transcode_generator).                                *)
(*                                                                         *)
(* Strings that the code parses or formats are sequences of one-character  *)
(* strings; the literal 'bytes=' is one symbol of the header alphabet.     *)
(***************************************************************************)
EXTENDS Integers, Sequences, FiniteSets, TLC

\* ---------------------------------------------------------------- bounds
\* longest Range header, in symbols
MaxHdrLen == 4
\* largest file size, in bytes
MaxSize == 4
\* view_count is capped in the guards of the request actions
MaxViews == 2
\* the logical clock behind datetime.now()
MaxTime == 1

\* largest playback position a client saves, in seconds
MaxPos == 1

\* largest start_time of a /transcode request, in seconds
MaxStart == 45
\* chunks the stdout pipe of an encoder holds
PipeCap == 1
\* chunks an encoder writes at most
MaxChunks == 2

\* lines of diagnostics the stderr pipe of an encoder holds
ErrCap == 1
\* lines of diagnostics an encoder writes at most: more than the pipe holds
MaxErr == ErrCap + 1

\* line 590: the window the fine seek of the copy pipeline covers
CoarseWindow == 30

Sessions == {1, 2}
Pids == 1..(Cardinality(Sessions) + 1)

Clients == {"10.0.0.1", "10.0.0.2"}
Files == {"movie.mp4", "movie.avi"}

Max(a, b) == IF a >= b THEN a ELSE b
Min(a, b) == IF a <= b THEN a ELSE b

\* ------------------------------------------------------- python builtins
Digits == <<"0", "1", "2", "3", "4", "5", "6", "7", "8", "9">>
IsDigit(c) == \E i \in 1..10 : Digits[i] = c
DigitVal(c) == (CHOOSE i \in 1..10 : Digits[i] = c) - 1

\* int(s) raises ValueError unless s is a non-empty run of digits (no sign,
\* blank or underscore is in the header alphabet)
IntOk(s) == s # <<>> /\ \A i \in 1..Len(s) : IsDigit(s[i])

RECURSIVE int(_)
int(s) ==
    IF s = <<>> THEN 0
    ELSE 10 * int(SubSeq(s, 1, Len(s) - 1)) + DigitVal(s[Len(s)])

RECURSIVE NatStr(_)
NatStr(n) ==
    IF n < 10 THEN <<Digits[n + 1]>>
    ELSE NatStr(n \div 10) \o <<Digits[(n % 10) + 1]>>

\* str(n) and the {n} of an f-string, for an int
str(n) == IF n < 0 THEN <<"-">> \o NatStr(-n) ELSE NatStr(n)

\* range_header.replace('bytes=', '')
replace(s) == SelectSeq(s, LAMBDA c : c # "bytes=")

\* range_str.split('-')
RECURSIVE split(_)
split(s) ==
    IF \A i \in 1..Len(s) : s[i] # "-" THEN <<s>>
    ELSE LET k == CHOOSE i \in 1..Len(s) :
                      s[i] = "-" /\ \A j \in 1..(i - 1) : s[j] # "-"
         IN  <<SubSeq(s, 1, k - 1)>> \o split(SubSeq(s, k + 1, Len(s)))

\* range_header.startswith('bytes=0-')
startswith(s) == Len(s) >= 3 /\ s[1] = "bytes=" /\ s[2] = "0" /\ s[3] = "-"

\* the bytes of a file of the given size: the byte at offset i is i
FileData(size) == [i \in 1..size |-> i - 1]

\* f.seek(pos); f.read(n) on a binary file: n = -1 reads to the end of the
\* file, n >= 0 reads at most n bytes (n < -1 raises ValueError, see
\* RangeFails)
read(data, pos, n) ==
    IF n = -1 THEN SubSeq(data, pos + 1, Len(data))
    ELSE SubSeq(data, pos + 1, Min(pos + n, Len(data)))

\* ------------------------------------------------------------- variables
VARIABLES
    db,         \* the rows of watch_history, in id order
    now,        \* datetime.now()
    dbUp,       \* whether sqlite3.connect and the statements succeed
    streamReq,  \* the /stream request being answered
    streamResp, \* its response
    treq,       \* per session: the /transcode request
    tresp,      \* per session: what transcode_stream answered
    pc,         \* per session: where its transcode_generator stands
    path,       \* per session: the way its generator is leaving
    process,    \* per session: the generator's `process` (0: None)
    ptable,     \* the operating system's processes, by pid
    posReq,     \* the save-position or get-position request being answered
    posResp     \* its JSON response

storeVars == <<db, now, dbUp>>
streamVars == <<streamReq, streamResp>>
posVars == <<posReq, posResp>>
handlerVars == <<treq, tresp>>
genVars == <<pc, path, process, ptable>>
transcodeVars == <<treq, tresp, pc, path, process, ptable>>

\* -------------------------------------------------------- watch history
Matching(d, ip_address, file_path) ==
    {i \in 1..Len(d) : d[i].ip_address = ip_address /\ d[i].file_path = file_path}

NewRow(ip_address, file_path, t) ==
    [ip_address |-> ip_address, file_path |-> file_path,
     first_watched |-> t, last_watched |-> t,
     view_count |-> 1, playback_position |-> 0]

\* a bug track_view could have: insert without looking for the row
track_view_insert(d, up, ip_address, file_path, t) ==
    IF ~up THEN d ELSE Append(d, NewRow(ip_address, file_path, t))

\* track_view: one transaction; an exception of get_db or of a statement is
\* logged and swallowed, the rollback leaving the table as it was
track_view(d, up, ip_address, file_path, t) ==
    IF ~up THEN d
    ELSE LET existing == Matching(d, ip_address, file_path)
         IN  IF existing # {}
             THEN LET id == CHOOSE i \in existing : \A j \in existing : i <= j
                  IN  [d EXCEPT ![id].last_watched = t,
                                ![id].view_count = d[id].view_count + 1]
             ELSE Append(d, NewRow(ip_address, file_path, t))

\* lines 58-61: get_db rolls back, logs and raises again what sqlite3 raised
get_db_raises(up) == ~up

\* a bug track_view could have: no try around the transaction
track_view_unguarded(up) == get_db_raises(up)

\* lines 94, 113-114: track_view catches every Exception of get_db and of
\* its statements and logs it: nothing is raised to the handler
track_view_raises(up) == FALSE

ViewsOf(d, ip_address, file_path) ==
    LET m == Matching(d, ip_address, file_path)
    IN  IF m = {} THEN 0 ELSE d[CHOOSE i \in m : \A j \in m : i <= j].view_count

\* --------------------------------------------------- playback positions
NoPosRequest == [op |-> "", client_ip |-> "", file_path |-> "", position |-> 0]
NoPosResponse == [success |-> FALSE, position |-> 0, error |-> FALSE]

\* a bug save_playback_position could have: a row made for a pair without one
save_playback_position_upsert(d, up, ip_address, file_path, position, t) ==
    IF ~up THEN d
    ELSE IF Matching(d, ip_address, file_path) = {}
    THEN Append(d, [NewRow(ip_address, file_path, t) EXCEPT !.playback_position = position])
    ELSE [i \in 1..Len(d) |->
             IF i \in Matching(d, ip_address, file_path)
             THEN [d[i] EXCEPT !.playback_position = position, !.last_watched = t]
             ELSE d[i]]

\* lines 428-432: UPDATE ... SET playback_position, last_watched WHERE
\* ip_address = ? AND file_path = ?: every matching row, no row made
save_playback_position(d, up, ip_address, file_path, position, t) ==
    IF ~up THEN d
    ELSE [i \in 1..Len(d) |->
             IF i \in Matching(d, ip_address, file_path)
             THEN [d[i] EXCEPT !.playback_position = position, !.last_watched = t]
             ELSE d[i]]

\* lines 433-437: {'success': True}, or {'success': False, 'error': ...}
save_response(up) == [NoPosResponse EXCEPT !.success = up, !.error = ~up]

\* lines 444-466: the position of the first matching row, 0 without one,
\* 0 and an error when the database fails
get_playback_position(d, up, ip_address, file_path) ==
    LET m == Matching(d, ip_address, file_path)
    IN  IF ~up THEN [NoPosResponse EXCEPT !.error = TRUE]
        ELSE IF m # {}
        THEN [NoPosResponse EXCEPT
                 !.position = d[CHOOSE i \in m : \A j \in m : i <= j].playback_position]
        ELSE NoPosResponse

\* POST /api/save-position/{file_path}?position=...
SavePosition(ip_address, file_path, position) ==
    /\ posReq' = [op |-> "save", client_ip |-> ip_address, file_path |-> file_path,
                  position |-> position]
    /\ posResp' = save_response(dbUp)
    /\ db' = save_playback_position(db, dbUp, ip_address, file_path, position, now)
    /\ UNCHANGED <<now, dbUp, streamVars, transcodeVars>>

\* GET /api/get-position/{file_path}
GetPosition(ip_address, file_path) ==
    /\ posReq' = [op |-> "get", client_ip |-> ip_address, file_path |-> file_path,
                  position |-> 0]
    /\ posResp' = get_playback_position(db, dbUp, ip_address, file_path)
    /\ UNCHANGED <<storeVars, streamVars, transcodeVars>>

\* ---------------------------------------------------------------- /stream
HdrAlphabet == {"bytes=", "0", "1", "3", "-", "x"}
Headers == UNION {[1..n -> HdrAlphabet] : n \in 0..MaxHdrLen}

NoRequest ==
    [exists |-> FALSE, file_size |-> 0, has_range |-> FALSE, range_header |-> <<>>,
     client_ip |-> "", file_path |-> ""]
NoResponse ==
    [status |-> 0, views |-> 0, start |-> 0, end |-> 0,
     content_length |-> <<>>, content_range |-> <<>>, body |-> <<>>]

StreamRequests ==
    {[exists |-> e, file_size |-> IF e THEN n ELSE 0, has_range |-> h,
      range_header |-> IF h THEN r ELSE <<>>, client_ip |-> c, file_path |-> p] :
        e \in BOOLEAN, n \in 0..MaxSize, h \in BOOLEAN, r \in Headers,
        c \in {"10.0.0.1"}, p \in {"movie.mp4"}}

\* `not range_header`: the header absent or empty
NoRangeHeader(r) == ~r.has_range \/ r.range_header = <<>>

\* line 524: the view is tracked on the text of the header
TracksView(r) == NoRangeHeader(r) \/ startswith(r.range_header)

range_parts(r) == split(replace(r.range_header))
HasEnd(r) == Len(range_parts(r)) > 1 /\ range_parts(r)[2] # <<>>
ParsedStart(r) == IF range_parts(r)[1] # <<>> THEN int(range_parts(r)[1]) ELSE 0
ParsedEnd(r) == IF HasEnd(r) THEN int(range_parts(r)[2]) ELSE r.file_size - 1

\* a bug the clamping could have: the end is not clamped
ClampedEndNoClamp(r) == ParsedEnd(r)

\* a bug the length could have: the inclusive end not counted
content_length_exclusive(r) ==
    Min(ParsedEnd(r), r.file_size - 1) - Max(0, Min(ParsedStart(r), r.file_size - 1))

\* lines 535-537
ClampedStart(r) == Max(0, Min(ParsedStart(r), r.file_size - 1))
ClampedEnd(r) == Min(ParsedEnd(r), r.file_size - 1)
content_length(r) == ClampedEnd(r) - ClampedStart(r) + 1

\* what the try block of lines 529-550 raises on: int() of a part that is
\* not a number, f.read() of a length below -1
RangeFails(r) ==
    \/ range_parts(r)[1] # <<>> /\ ~IntOk(range_parts(r)[1])
    \/ HasEnd(r) /\ ~IntOk(range_parts(r)[2])
    \/ content_length(r) < -1

\* the response of stream_media to request r
stream_media(r) ==
    LET views == IF TracksView(r) THEN 1 ELSE 0
    IN  IF ~r.exists THEN [NoResponse EXCEPT !.status = 404]
        ELSE IF NoRangeHeader(r)
        THEN [NoResponse EXCEPT !.status = 200, !.views = views,
                                !.content_length = str(r.file_size),
                                !.body = FileData(r.file_size)]
        ELSE IF RangeFails(r)
        THEN [NoResponse EXCEPT !.status = 416, !.views = views]
        ELSE [status |-> 206, views |-> views,
              start |-> ClampedStart(r), end |-> ClampedEnd(r),
              content_length |-> str(content_length(r)),
              content_range |-> <<"bytes ">> \o str(ClampedStart(r)) \o <<"-">>
                                \o str(ClampedEnd(r)) \o <<"/">> \o str(r.file_size),
              body |-> read(FileData(r.file_size), ClampedStart(r), content_length(r))]

\* what the client of request r gets: an exception leaving track_view
\* (line 525) would leave the handler too and be answered 500
StreamOutcome(r, up) ==
    IF r.exists /\ TracksView(r) /\ track_view_raises(up)
    THEN [NoResponse EXCEPT !.status = 500]
    ELSE stream_media(r)

\* a /stream request arrives and is answered: the handler has no await, so
\* nothing interleaves with it
StreamRequest(r) ==
    /\ ViewsOf(db, r.client_ip, r.file_path) < MaxViews
    /\ streamReq' = r
    /\ streamResp' = StreamOutcome(r, dbUp)
    /\ db' = IF r.exists /\ TracksView(r)
             THEN track_view(db, dbUp, r.client_ip, r.file_path, now)
             ELSE db
    /\ UNCHANGED <<now, dbUp, posVars, transcodeVars>>

\* the response is sent; the next request can come
StreamNext ==
    /\ streamReq # NoRequest
    /\ streamReq' = NoRequest
    /\ streamResp' = NoResponse
    /\ UNCHANGED <<storeVars, posVars, transcodeVars>>

\* ------------------------------------------------------------- /transcode
CodecNames == {"h264", "H264", "avc1", "hevc", "h265", "mpeg4", "MPEG4", "vp9"}

\* str.lower() on the codec names of the model
lower(c) ==
    CASE c = "H264" -> "h264"
      [] c = "MPEG4" -> "mpeg4"
      [] OTHER -> c

\* what ffprobe gives for a file: it fails, or it lists no video stream, or
\* it names the codec of the first one
Probes ==
    {[ok |-> FALSE, has_stream |-> FALSE, codec_name |-> ""],
     [ok |-> TRUE, has_stream |-> FALSE, codec_name |-> ""]}
    \cup {[ok |-> TRUE, has_stream |-> TRUE, codec_name |-> c] : c \in CodecNames}

unsupported == {"xvid", "divx", "mpeg4", "msmpeg4", "wmv", "flv1", "vp6"}
compatible_codecs == {"h264", "avc1", "hevc", "h265"}

NoInfo == [ok |-> FALSE, codec |-> "", needs_transcode |-> FALSE]

\* get_video_info: None when ffprobe fails, else the codec and the flag
get_video_info(probe) ==
    IF ~probe.ok THEN NoInfo
    ELSE IF ~probe.has_stream
    THEN [ok |-> TRUE, codec |-> "unknown", needs_transcode |-> FALSE]
    ELSE [ok |-> TRUE, codec |-> lower(probe.codec_name),
          needs_transcode |-> lower(probe.codec_name) \in unsupported]

\* GET /api/video-info/{file_path} for the file of request r: 404, 500, or
\* the JSON of get_video_info
get_video_metadata(r) ==
    IF ~r.exists THEN [status |-> 404, info |-> NoInfo]
    ELSE IF ~get_video_info(r.probe).ok THEN [status |-> 500, info |-> NoInfo]
    ELSE [status |-> 200, info |-> get_video_info(r.probe)]

\* a bug the copy decision could have: whatever is not flagged is copied
can_copy_video_unflagged(video_info) == ~video_info.needs_transcode

\* line 583
can_copy_video(video_info) == lower(video_info.codec) \in compatible_codecs

\* str(x) of a float with an integral value
fstr(n) == str(n) \o <<".", "0">>

\* os.path.join(DATA_DIR, file_path)
full_path(file_path) == <<"/app/data/", file_path>>

\* a bug the coarse seek could have: max(0, ...) forgotten
coarse_seek_unclamped(start_time) == start_time - CoarseWindow

\* lines 590-591
coarse_seek(start_time) == Max(0, start_time - CoarseWindow)
fine_seek(start_time) == start_time - coarse_seek(start_time)

Opt(cond, tokens) == IF cond THEN tokens ELSE <<>>

\* lines 585-630: the encoder's command line, each argument a text
build_cmd(r, video_info) ==
    LET input == << <<"-i">>, full_path(r.file_path) >>
        audio == << <<"-map">>, <<"0:v:0">>, <<"-map">>, <<"0:a:">> \o str(r.audio_track) >>
    IN  << <<"ffmpeg">> >>
        \o (IF can_copy_video(video_info)
            THEN (IF r.start_time > 0
                  THEN Opt(coarse_seek(r.start_time) > 0,
                           << <<"-ss">>, fstr(coarse_seek(r.start_time)) >>)
                       \o input
                       \o Opt(fine_seek(r.start_time) > 0,
                              << <<"-ss">>, fstr(fine_seek(r.start_time)) >>)
                  ELSE input)
                 \o audio
                 \o << <<"-c:v">>, <<"copy">>, <<"-c:a">>, <<"aac">>, <<"-b:a">>, <<"192k">>,
                       <<"-ac">>, <<"2">>, <<"-avoid_negative_ts">>, <<"make_zero">> >>
            ELSE Opt(r.start_time > 0, << <<"-ss">>, fstr(r.start_time) >>)
                 \o input
                 \o audio
                 \o << <<"-c:v">>, <<"libx264">>, <<"-preset">>, <<"ultrafast">>,
                       <<"-tune">>, <<"zerolatency">>, <<"-crf">>, <<"28">>,
                       <<"-threads">>, <<"0">>, <<"-c:a">>, <<"aac">>, <<"-b:a">>, <<"192k">>,
                       <<"-ac">>, <<"2">> >>)
        \o << <<"-movflags">>, <<"frag_keyframe+empty_moov+faststart">>,
              <<"-f">>, <<"mp4">>, <<"pipe:1">> >>

NoTRequest ==
    [exists |-> FALSE, probe |-> [ok |-> FALSE, has_stream |-> FALSE, codec_name |-> ""],
     start_time |-> 0, audio_track |-> 0, client_ip |-> "", file_path |-> ""]
NoTResponse == [status |-> 0, views |-> 0, cmd |-> <<>>]

\* a bug transcode_stream could have: the view tracked before the probe
TracksTranscodeViewEarly(r) == r.exists /\ r.start_time = 0

\* lines 567-579: the view is tracked once the file is there and probed
TracksTranscodeView(r) ==
    r.exists /\ get_video_info(r.probe).ok /\ r.start_time = 0

\* what transcode_stream answers to request r, before the body is streamed
transcode_stream(r) ==
    IF ~r.exists THEN [NoTResponse EXCEPT !.status = 404]
    ELSE IF ~get_video_info(r.probe).ok THEN [NoTResponse EXCEPT !.status = 500]
    ELSE [status |-> 200,
          views |-> IF TracksTranscodeView(r) THEN 1 ELSE 0,
          cmd |-> build_cmd(r, get_video_info(r.probe))]

\* what the client of request r gets: an exception leaving track_view
\* (line 579) would leave the handler too and be answered 500
TranscodeOutcome(r, up) ==
    IF TracksTranscodeView(r) /\ track_view_raises(up)
    THEN [NoTResponse EXCEPT !.status = 500]
    ELSE transcode_stream(r)

\* a /transcode request arrives at session s and transcode_stream runs to
\* its return (it has no await): with status 200 the generator is created,
\* not yet started
TranscodeRequest(s, r) ==
    /\ ViewsOf(db, r.client_ip, r.file_path) < MaxViews
    /\ treq' = [treq EXCEPT ![s] = r]
    /\ tresp' = [tresp EXCEPT ![s] = TranscodeOutcome(r, dbUp)]
    /\ db' = IF TracksTranscodeView(r)
             THEN track_view(db, dbUp, r.client_ip, r.file_path, now)
             ELSE db
    /\ pc' = [pc EXCEPT ![s] = IF TranscodeOutcome(r, dbUp).status = 200
                                THEN "created" ELSE "none"]
    /\ UNCHANGED <<now, dbUp, streamVars, posVars, path, process, ptable>>

\* ------------------------------------------------- the encoder processes
NoProc ==
    [state |-> "free", by |-> 0, sigkill |-> FALSE, pipe |-> 0, left |-> 0,
     err |-> 0, errleft |-> 0, errwait |-> FALSE]

FreePids == {p \in Pids : ptable[p].state = "free"}

\* the encoder writes a chunk to its stdout pipe
ProcWrite(p) ==
    /\ ptable[p].state = "running"
    /\ ~ptable[p].errwait
    /\ ptable[p].left > 0
    /\ ptable[p].pipe < PipeCap
    /\ ptable' = [ptable EXCEPT ![p].pipe = @ + 1, ![p].left = @ - 1]
    /\ UNCHANGED <<storeVars, streamVars, posVars, handlerVars, pc, path, process>>

\* line 635, stderr=subprocess.PIPE: the encoder writes a line of
\* diagnostics to its stderr pipe, which nothing in the program reads: with
\* the pipe full the write blocks, and the encoder with it
ProcWriteErr(p) ==
    /\ ptable[p].state = "running"
    /\ ~ptable[p].errwait
    /\ ptable[p].errleft > 0
    /\ ptable' = IF ptable[p].err < ErrCap
                 THEN [ptable EXCEPT ![p].err = @ + 1, ![p].errleft = @ - 1]
                 ELSE [ptable EXCEPT ![p].errwait = TRUE]
    /\ UNCHANGED <<storeVars, streamVars, posVars, handlerVars, pc, path, process>>

\* the encoder exits (its work done, a failure, or the SIGKILL delivered;
\* blocked in a write, only the SIGKILL): its stdout closes and it stays a
\* zombie until it is waited on
ProcExit(p) ==
    /\ ptable[p].state = "running"
    /\ ~ptable[p].errwait \/ ptable[p].sigkill
    /\ ptable' = [ptable EXCEPT ![p].state = "zombie"]
    /\ UNCHANGED <<storeVars, streamVars, posVars, handlerVars, pc, path, process>>

\* process.poll(): reaps the process if it has exited
poll(pt, p) == IF pt[p].state = "zombie" THEN [pt EXCEPT ![p].state = "reaped"] ELSE pt

\* process.poll() is None
Alive(pt, p) == pt[p].state = "running"

\* process.kill(): SIGKILL is sent; the process exits when it is delivered
kill(pt, p) == IF pt[p].state = "running" THEN [pt EXCEPT ![p].sigkill = TRUE] ELSE pt

\* `if process and process.poll() is None: process.kill()`
kill_if_running(pt, p) == IF p = 0 THEN pt ELSE kill(poll(pt, p), p)

\* ------------------------------------------- transcode_generator, by step
\* line 635: Popen(cmd) starts the encoder
GenStart(s) ==
    /\ pc[s] = "created"
    /\ FreePids # {}
    /\ LET p == CHOOSE q \in FreePids : \A o \in FreePids : q <= o
       IN  /\ ptable' = [ptable EXCEPT ![p] =
                            [state |-> "running", by |-> s, sigkill |-> FALSE,
                             pipe |-> 0, left |-> MaxChunks,
                             err |-> 0, errleft |-> MaxErr, errwait |-> FALSE]]
           /\ process' = [process EXCEPT ![s] = p]
    /\ pc' = [pc EXCEPT ![s] = "reading"]
    /\ UNCHANGED <<storeVars, streamVars, posVars, handlerVars, path>>

\* line 635: Popen raises (no ffmpeg, no memory): `except Exception`
SpawnFails(s) ==
    /\ pc[s] = "created"
    /\ pc' = [pc EXCEPT ![s] = "except"]
    /\ path' = [path EXCEPT ![s] = "failed"]
    /\ UNCHANGED <<storeVars, streamVars, posVars, handlerVars, process, ptable>>

\* line 639: the read in the executor returns a chunk, which is yielded
ReadChunk(s) ==
    /\ pc[s] = "reading"
    /\ ptable[process[s]].pipe > 0
    /\ ptable' = [ptable EXCEPT ![process[s]].pipe = @ - 1]
    /\ pc' = [pc EXCEPT ![s] = "yield"]
    /\ UNCHANGED <<storeVars, streamVars, posVars, handlerVars, path, process>>

\* lines 640-641: the read returns b'' (the pipe empty and closed): break
ReadEOF(s) ==
    /\ pc[s] = "reading"
    /\ ptable[process[s]].pipe = 0
    /\ ptable[process[s]].state # "running"
    /\ pc' = [pc EXCEPT ![s] = "wait"]
    /\ path' = [path EXCEPT ![s] = "completed"]
    /\ UNCHANGED <<storeVars, streamVars, posVars, handlerVars, process, ptable>>

\* line 639: the read, or handing it to the executor, raises
ReadRaises(s) ==
    /\ pc[s] = "reading"
    /\ pc' = [pc EXCEPT ![s] = "except"]
    /\ path' = [path EXCEPT ![s] = "failed"]
    /\ UNCHANGED <<storeVars, streamVars, posVars, handlerVars, process, ptable>>

\* line 639: the task is cancelled while it awaits the read
CancelledAtRead(s) ==
    /\ pc[s] = "reading"
    /\ pc' = [pc EXCEPT ![s] = "except_cancel"]
    /\ path' = [path EXCEPT ![s] = "cancelled"]
    /\ UNCHANGED <<storeVars, streamVars, posVars, handlerVars, process, ptable>>

\* line 642: the response asks for the next chunk
Resume(s) ==
    /\ pc[s] = "yield"
    /\ pc' = [pc EXCEPT ![s] = "reading"]
    /\ UNCHANGED <<storeVars, streamVars, posVars, handlerVars, path, process, ptable>>

\* line 642: the generator is closed at its yield (the client is gone)
ClosedAtYield(s) ==
    /\ pc[s] = "yield"
    /\ pc' = [pc EXCEPT ![s] = "except_cancel"]
    /\ path' = [path EXCEPT ![s] = "cancelled"]
    /\ UNCHANGED <<storeVars, streamVars, posVars, handlerVars, process, ptable>>

\* line 644: process.wait() returns once the encoder has exited
FinalWait(s) ==
    /\ pc[s] = "wait"
    /\ ptable[process[s]].state # "running"
    /\ ptable' = poll(ptable, process[s])
    /\ pc' = [pc EXCEPT ![s] = "finally"]
    /\ UNCHANGED <<storeVars, streamVars, posVars, handlerVars, path, process>>

\* a bug the cancellation handler could have: kill without wait
CancelKillNoWait(s) ==
    /\ pc[s] = "except_cancel"
    /\ ptable' = kill_if_running(ptable, process[s])
    /\ pc' = [pc EXCEPT ![s] = "finally"]
    /\ UNCHANGED <<storeVars, streamVars, posVars, handlerVars, path, process>>

\* a bug the cancellation handler could have: wait without kill
CancelWaitOnly(s) ==
    /\ pc[s] = "except_cancel"
    /\ ptable' = IF process[s] = 0 THEN ptable ELSE poll(ptable, process[s])
    /\ pc' = [pc EXCEPT ![s] =
                 IF process[s] # 0 /\ Alive(ptable, process[s])
                 THEN "cancel_wait" ELSE "finally"]
    /\ UNCHANGED <<storeVars, streamVars, posVars, handlerVars, path, process>>

\* lines 645-647: GeneratorExit or CancelledError: poll, and kill a process
\* that has not exited
CancelKill(s) ==
    /\ pc[s] = "except_cancel"
    /\ ptable' = kill_if_running(ptable, process[s])
    /\ pc' = [pc EXCEPT ![s] =
                 IF process[s] # 0 /\ Alive(ptable, process[s])
                 THEN "cancel_wait" ELSE "finally"]
    /\ UNCHANGED <<storeVars, streamVars, posVars, handlerVars, path, process>>

\* lines 648-649: process.wait(), without a timeout, returns once the
\* encoder has exited; then the exception is raised again
CancelWait(s) ==
    /\ pc[s] = "cancel_wait"
    /\ ptable[process[s]].state # "running"
    /\ ptable' = poll(ptable, process[s])
    /\ pc' = [pc EXCEPT ![s] = "finally"]
    /\ UNCHANGED <<storeVars, streamVars, posVars, handlerVars, path, process>>

\* lines 650-653: any other exception: logged, poll, kill, no wait
ExceptKill(s) ==
    /\ pc[s] = "except"
    /\ ptable' = kill_if_running(ptable, process[s])
    /\ pc' = [pc EXCEPT ![s] = "finally"]
    /\ UNCHANGED <<storeVars, streamVars, posVars, handlerVars, path, process>>

\* lines 654-656: finally: poll, kill; the generator has finished
Finally(s) ==
    /\ pc[s] = "finally"
    /\ ptable' = kill_if_running(ptable, process[s])
    /\ pc' = [pc EXCEPT ![s] = "done"]
    /\ UNCHANGED <<storeVars, streamVars, posVars, handlerVars, path, process>>

\* the steps the generator takes by itself
GenStep(s) ==
    \/ GenStart(s)
    \/ ReadChunk(s)
    \/ ReadEOF(s)
    \/ FinalWait(s)
    \/ CancelKill(s)
    \/ CancelWait(s)
    \/ ExceptKill(s)
    \/ Finally(s)

\* what happens to it: the response resumes or closes it, the task is
\* cancelled, Popen or the read raises
GenEvent(s) ==
    \/ SpawnFails(s)
    \/ ReadRaises(s)
    \/ CancelledAtRead(s)
    \/ Resume(s)
    \/ ClosedAtYield(s)

TRequest(e, pr, st, a, p) ==
    [exists |-> e, probe |-> pr, start_time |-> st, audio_track |-> a,
     client_ip |-> "10.0.0.1", file_path |-> p]
ProbeOf(c) == [ok |-> TRUE, has_stream |-> TRUE, codec_name |-> c]
ProbeFailed == [ok |-> FALSE, has_stream |-> FALSE, codec_name |-> ""]

\* the requests of the lifecycle specification: a missing file, a file
\* ffprobe fails on, a first playback to copy, a seek to re-encode
SessionRequests ==
    {TRequest(FALSE, ProbeOf("h264"), 0, 0, "movie.mp4"),
     TRequest(TRUE, ProbeFailed, 0, 0, "movie.mp4"),
     TRequest(TRUE, ProbeOf("h264"), 0, 0, "movie.mp4"),
     TRequest(TRUE, ProbeOf("mpeg4"), MaxStart, 0, "movie.mp4")}

\* the requests of the command-line specification
CommandRequests ==
    {TRequest(e, pr, st, a, p) :
        e \in BOOLEAN, pr \in Probes, st \in (-1)..MaxStart, a \in 0..1,
        p \in Files}

vars ==
    <<db, now, dbUp, streamReq, streamResp, treq, tresp, pc, path, process, ptable,
      posReq, posResp>>

Init ==
    /\ db = <<>>
    /\ now = 0
    /\ dbUp = TRUE
    /\ streamReq = NoRequest
    /\ streamResp = NoResponse
    /\ treq = [s \in Sessions |-> NoTRequest]
    /\ tresp = [s \in Sessions |-> NoTResponse]
    /\ pc = [s \in Sessions |-> "none"]
    /\ path = [s \in Sessions |-> ""]
    /\ process = [s \in Sessions |-> 0]
    /\ ptable = [p \in Pids |-> NoProc]
    /\ posReq = NoPosRequest
    /\ posResp = NoPosResponse

TranscodeArrives(s) ==
    /\ treq[s] = NoTRequest
    /\ \E r \in SessionRequests : TranscodeRequest(s, r)

NextTranscode ==
    \/ \E s \in Sessions : TranscodeArrives(s)
    \/ \E s \in Sessions : GenStep(s)
    \/ \E s \in Sessions : GenEvent(s)
    \/ \E p \in Pids : ProcWrite(p)
    \/ \E p \in Pids : ProcExit(p)

SpecTranscode == Init /\ [][NextTranscode]_vars

\* the generator takes its steps; nothing is assumed of the encoder, which
\* may never exit
FairTranscode == SpecTranscode /\ \A s \in Sessions : WF_vars(GenStep(s))

\* what an encoder does by itself
ProcStep(p) ==
    \/ ProcWrite(p)
    \/ ProcWriteErr(p)
    \/ ProcExit(p)

\* the steps of a generator that is neither closed nor cancelled
ConnectedGenStep(s) ==
    \/ GenStart(s)
    \/ ReadChunk(s)
    \/ ReadEOF(s)
    \/ FinalWait(s)
    \/ ExceptKill(s)
    \/ Finally(s)

\* sessions whose clients stay connected and keep reading, their encoders
\* writing diagnostics as well
NextConnected ==
    \/ \E s \in Sessions : TranscodeArrives(s)
    \/ \E s \in Sessions : ConnectedGenStep(s)
    \/ \E s \in Sessions : Resume(s)
    \/ \E s \in Sessions : SpawnFails(s)
    \/ \E s \in Sessions : ReadRaises(s)
    \/ \E p \in Pids : ProcStep(p)

SpecConnected == Init /\ [][NextConnected]_vars

\* the generator takes its steps, the client takes every chunk, and the
\* encoder goes on (writes, or exits) whenever it is not blocked in a write
FairConnected ==
    /\ SpecConnected
    /\ \A s \in Sessions : WF_vars(ConnectedGenStep(s)) /\ WF_vars(Resume(s))
    /\ \A p \in Pids : WF_vars(ProcStep(p))

\* one connection asks again and again; its generators are never started
CommandArrives ==
    /\ treq[1] = NoTRequest
    /\ \E r \in CommandRequests : TranscodeRequest(1, r)

CommandNext ==
    /\ treq[1] # NoTRequest
    /\ pc[1] \in {"none", "created"}
    /\ treq' = [treq EXCEPT ![1] = NoTRequest]
    /\ tresp' = [tresp EXCEPT ![1] = NoTResponse]
    /\ pc' = [pc EXCEPT ![1] = "none"]
    /\ UNCHANGED <<storeVars, streamVars, posVars, path, process, ptable>>

NextCommand ==
    \/ CommandArrives
    \/ CommandNext

SpecCommand == Init /\ [][NextCommand]_vars

StreamArrives ==
    /\ streamReq = NoRequest
    /\ \E r \in StreamRequests : StreamRequest(r)

NextStream ==
    \/ StreamArrives
    \/ StreamNext

SpecStream == Init /\ [][NextStream]_vars

\* a handler calls track_view(ip_address, file_path, ...)
RecordView(ip_address, file_path) ==
    /\ ViewsOf(db, ip_address, file_path) < MaxViews
    /\ db' = track_view(db, dbUp, ip_address, file_path, now)
    /\ UNCHANGED <<now, dbUp, streamVars, posVars, transcodeVars>>

\* time passes
Tick ==
    /\ now < MaxTime
    /\ now' = now + 1
    /\ UNCHANGED <<db, dbUp, streamVars, posVars, transcodeVars>>

NextStore ==
    \/ \E c \in Clients, p \in Files : RecordView(c, p)
    \/ Tick

SpecStore == Init /\ [][NextStore]_vars

\* one client plays its files, saving and asking for its positions
PosClients == {"10.0.0.1"}

NextPosition ==
    \/ \E c \in PosClients, p \in Files : RecordView(c, p)
    \/ \E c \in PosClients, p \in Files, x \in 0..MaxPos : SavePosition(c, p, x)
    \/ \E c \in PosClients, p \in Files : GetPosition(c, p)
    \/ Tick

SpecPosition == Init /\ [][NextPosition]_vars

\* ------------------------------------------------------- the event loop
\* Every handler and every generator is a coroutine of the one event-loop
\* thread: a call that is not awaited keeps that thread until it returns.

\* lines 539-541: stream_media is inside open/seek/read, called directly
InStorageRead == streamReq # NoRequest /\ streamResp = NoResponse

\* line 570: transcode_stream is inside get_video_info, whose
\* subprocess.run waits for ffprobe (5 seconds at most), called directly
InProbe(s) == pc[s] = "probing"

\* lines 644, 648: the generator is inside process.wait(), called directly
InWait(s) == pc[s] \in {"wait", "cancel_wait"}

\* line 639: the generator awaits process.stdout.read, which runs on a
\* thread of the default executor: the event-loop thread is not in it
InPipeRead(s) ==
    /\ pc[s] = "reading"
    /\ ptable[process[s]].pipe = 0
    /\ Alive(ptable, process[s])

\* the event-loop thread is not inside a call of anything but session s
LoopFreeFor(s) ==
    /\ ~InStorageRead
    /\ \A t \in Sessions \ {s} : ~InProbe(t) /\ ~InWait(t)

LoopIdle == LoopFreeFor(0)

\* the Range requests whose bytes stream_media reads itself
LoopStreamRequests ==
    {[exists |-> TRUE, file_size |-> 2, has_range |-> TRUE,
      range_header |-> <<"bytes=", "0", "-">>,
      client_ip |-> "10.0.0.1", file_path |-> "movie.mp4"]}

\* lines 510-539: a Range request is dispatched; the handler runs up to
\* its read of the file
LoopStreamStart ==
    /\ LoopIdle
    /\ streamReq = NoRequest
    /\ \E r \in LoopStreamRequests : streamReq' = r
    /\ UNCHANGED <<storeVars, streamResp, posVars, transcodeVars>>

\* lines 541-553: the read returns and the handler answers
LoopStreamEnd ==
    /\ InStorageRead
    /\ StreamRequest(streamReq)

LoopStreamNext ==
    /\ LoopIdle
    /\ StreamNext

\* lines 562-570: a /transcode request for a file that is there is
\* dispatched; the handler runs up to its wait for ffprobe
LoopProbeStart(s) ==
    /\ LoopIdle
    /\ treq[s] = NoTRequest
    /\ \E r \in SessionRequests :
           /\ r.exists
           /\ treq' = [treq EXCEPT ![s] = r]
    /\ pc' = [pc EXCEPT ![s] = "probing"]
    /\ UNCHANGED <<storeVars, streamVars, posVars, tresp, path, process, ptable>>

\* lines 570-666: ffprobe has exited or its 5 seconds are over; the
\* handler runs to its return
LoopProbeEnd(s) ==
    /\ InProbe(s)
    /\ TranscodeRequest(s, treq[s])

\* lines 566-567: a /transcode request for a missing file
LoopNotFound(s) ==
    /\ LoopIdle
    /\ treq[s] = NoTRequest
    /\ \E r \in SessionRequests : ~r.exists /\ TranscodeRequest(s, r)

\* the event loop runs a step of the generator of s
LoopGenStep(s) ==
    /\ LoopFreeFor(s)
    /\ GenStep(s)

\* the event loop delivers to the generator of s what happened to it
LoopGenEvent(s) ==
    /\ LoopFreeFor(s)
    /\ GenEvent(s)

NextLoop ==
    \/ LoopStreamStart
    \/ LoopStreamEnd
    \/ LoopStreamNext
    \/ \E s \in Sessions : LoopProbeStart(s)
    \/ \E s \in Sessions : LoopProbeEnd(s)
    \/ \E s \in Sessions : LoopNotFound(s)
    \/ \E s \in Sessions : LoopGenStep(s)
    \/ \E s \in Sessions : LoopGenEvent(s)
    \/ \E p \in Pids : ProcWrite(p)
    \/ \E p \in Pids : ProcExit(p)

SpecLoop == Init /\ [][NextLoop]_vars

\* the database file becomes unusable (locked, disk full) or usable again
DbFault ==
    /\ dbUp' = ~dbUp
    /\ UNCHANGED <<db, now, streamVars, posVars, transcodeVars>>

\* requests served one after the other while the database comes and goes
FaultStreamArrives ==
    /\ treq[1] = NoTRequest
    /\ StreamArrives

FaultTranscodeArrives ==
    /\ streamReq = NoRequest
    /\ treq[1] = NoTRequest
    /\ \E r \in SessionRequests : TranscodeRequest(1, r)

NextFault ==
    \/ FaultStreamArrives
    \/ StreamNext
    \/ FaultTranscodeArrives
    \/ CommandNext
    \/ DbFault

SpecFault == Init /\ [][NextFault]_vars

\* the whole program: every request, every generator and every encoder
Next ==
    \/ NextStream
    \/ NextStore
    \/ NextPosition
    \/ NextTranscode
    \/ NextLoop
    \/ NextConnected
    \/ CommandNext
    \/ DbFault

Spec == Init /\ [][Next]_vars

\* ------------------------------------------------------------ the claims
Answered == streamReq # NoRequest /\ streamResp.status # 0

\* the header text bytes=<a>-<b>
Hdr(a, b) == <<"bytes=">> \o a \o <<"-">> \o b

\* the numbers a header of the model can ask for
RequestedNums == 0..(10 * MaxSize)

\* the header texts that ask for the bytes s..e of a file of `total` bytes
RangeTexts(s, e, total) ==
    {Hdr(a, b) : a \in {str(s)} \cup (IF s = 0 THEN {<<>>} ELSE {}),
                 b \in {str(e)} \cup (IF e = total - 1 THEN {<<>>} ELSE {})}

\* the bytes s..e of a file
Window(s, e) == [i \in 1..(e - s + 1) |-> s + i - 1]

\* C4: for total > 0 and a Range header bytes=<start>-<end> with
\* 0 <= start <= end < total (an empty <end> standing for total-1, an empty
\* <start> for 0), /stream answers 206 with exactly the bytes start..end,
\* Content-Length end-start+1 and Content-Range 'bytes start-end/total'.
C4_ValidRangeServed ==
    \A s \in 0..MaxSize, e \in 0..MaxSize :
        ( /\ Answered
          /\ streamReq.exists
          /\ streamReq.has_range
          /\ s <= e
          /\ e < streamReq.file_size
          /\ streamReq.range_header \in RangeTexts(s, e, streamReq.file_size) )
        => /\ streamResp.status = 206
           /\ streamResp.body = Window(s, e)
           /\ Len(streamResp.body) = e - s + 1
           /\ streamResp.content_length = str(e - s + 1)
           /\ streamResp.content_range =
                  <<"bytes ">> \o str(s) \o <<"-">> \o str(e) \o <<"/">>
                  \o str(streamReq.file_size)

C4_Witness ==
    /\ streamReq.exists
    /\ streamReq.file_size = 4
    /\ streamReq.range_header = <<"bytes=", "1", "-", "3">>
    /\ streamResp.status = 206
    /\ streamResp.body = <<1, 2, 3>>

\* a header bytes=<digits or nothing>-<digits or nothing>, and its two texts
Dash(h) == CHOOSE i \in 1..Len(h) : h[i] = "-"
WellFormed(h) ==
    /\ Len(h) >= 2
    /\ h[1] = "bytes="
    /\ Cardinality({i \in 1..Len(h) : h[i] = "-"}) = 1
    /\ \A i \in 2..Len(h) : h[i] = "-" \/ IsDigit(h[i])
StartText(h) == SubSeq(h, 2, Dash(h) - 1)
EndText(h) == SubSeq(h, Dash(h) + 1, Len(h))

\* a well-formed Range header on an existing, non-empty file was answered
AnsweredRange ==
    /\ Answered
    /\ streamReq.exists
    /\ streamReq.file_size > 0
    /\ streamReq.has_range
    /\ WellFormed(streamReq.range_header)

\* C5 as the spec states it: a requested end >= total is clamped to total-1,
\* and a requested start >= total is answered 416, never 206.
C5_StartBeyondEndRejected ==
    AnsweredRange =>
        \A s \in RequestedNums :
            (StartText(streamReq.range_header) = str(s) /\ s >= streamReq.file_size)
            => streamResp.status = 416

\* C5, amended: a requested end >= total is clamped to total-1 in every 206
\* response, and a requested start >= total is clamped to total-1 as well:
\* for total > 0, a header whose start is >= total and whose end is empty or
\* >= total-1 is answered 206 with the last byte of the file alone.
C5_OutOfBoundsClamped ==
    AnsweredRange =>
        LET total == streamReq.file_size
            endText == EndText(streamReq.range_header)
            endBeyond(n) == \E e \in RequestedNums : endText = str(e) /\ e >= n
        IN  /\ (streamResp.status = 206 /\ endBeyond(total))
               => streamResp.end = total - 1
            /\ \A s \in RequestedNums :
                   ( /\ StartText(streamReq.range_header) = str(s)
                     /\ s >= total
                     /\ (endText = <<>> \/ endBeyond(total - 1)) )
                   => /\ streamResp.status = 206
                      /\ streamResp.start = total - 1
                      /\ streamResp.end = total - 1
                      /\ streamResp.body = <<total - 1>>
                      /\ streamResp.content_range =
                             <<"bytes ">> \o str(total - 1) \o <<"-">>
                             \o str(total - 1) \o <<"/">> \o str(total)

C5_Witness ==
    /\ streamReq.exists
    /\ streamReq.file_size = 2
    /\ streamReq.range_header = <<"bytes=", "3", "-", "3">>
    /\ streamResp.status = 206
    /\ streamResp.start = 1
    /\ streamResp.end = 1

\* C6: every 206 response of /stream (to a file of total > 0 bytes) carries
\* a range with 0 <= start <= end <= total-1 and a Content-Length >= 1.
C6_ByteRangeWellFormed ==
    (AnsweredRange /\ streamResp.status = 206)
    => /\ 0 <= streamResp.start
       /\ streamResp.start <= streamResp.end
       /\ streamResp.end <= streamReq.file_size - 1
       /\ streamResp.content_length \in {str(n) : n \in 1..streamReq.file_size}

\* C7: the store holds at most one row per (ip_address, file_path); the
\* first track_view of a pair inserts its row with view_count = 1, every
\* later one raises that row's view_count by exactly 1 and sets its
\* last_watched to the time of the call, the number of rows unchanged.
C7_OneRowPerPair ==
    /\ [](\A c \in Clients, p \in Files : Cardinality(Matching(db, c, p)) <= 1)
    /\ [][\A c \in Clients, p \in Files :
             RecordView(c, p) =>
                 IF Matching(db, c, p) = {}
                 THEN /\ Len(db') = Len(db) + 1
                      /\ ViewsOf(db', c, p) = 1
                 ELSE /\ Len(db') = Len(db)
                      /\ ViewsOf(db', c, p) = ViewsOf(db, c, p) + 1
                      /\ \A i \in Matching(db', c, p) : db'[i].last_watched = now
          ]_vars

C7_Witness ==
    /\ Len(db) = 2
    /\ ViewsOf(db, "10.0.0.1", "movie.mp4") = 2
    /\ ViewsOf(db, "10.0.0.2", "movie.mp4") = 1
    /\ \E i \in 1..Len(db) : db[i].last_watched > db[i].first_watched

\* C8: a /stream request for an existing file reports a view event exactly
\* when it has no Range header or its resolved range starts at byte 0, and
\* then exactly once.
C8_ViewIffStartsAtZero ==
    ( /\ Answered
      /\ streamReq.exists
      /\ streamReq.file_size > 0
      /\ streamReq.has_range => WellFormed(streamReq.range_header) )
    => /\ streamResp.views <= 1
       /\ streamResp.views = 1 <=>
              \/ NoRangeHeader(streamReq)
              \/ streamResp.status = 206 /\ streamResp.start = 0

\* the processes session s has spawned
SpawnedBy(s) == {p \in Pids : ptable[p].state # "free" /\ ptable[p].by = s}

\* C1: once the generator of a session that spawned an encoder has
\* finished, on whatever path, the encoder is no longer running.
C1_NoProcessOutlivesGenerator ==
    \A s \in Sessions :
        (pc[s] = "done" /\ process[s] # 0)
        => ptable[process[s]].state # "running"

\* C2: when the generator leaves on a disconnect or a cancellation
\* (GeneratorExit, CancelledError), its encoder has exited, killed by the
\* handler unless it had exited before, and has been waited on, before
\* the generator finishes.
C2_CancelKillsAndReaps ==
    \A s \in Sessions :
        (path[s] = "cancelled" /\ pc[s] \in {"finally", "done"})
        => /\ process[s] # 0
           /\ ptable[process[s]].state = "reaped"

C2_Witness ==
    \E s \in Sessions :
        /\ path[s] = "cancelled"
        /\ pc[s] = "done"
        /\ ptable[process[s]].state = "reaped"
        /\ ptable[process[s]].sigkill

\* C3 as the spec states it: the handler of a cancellation never waits
\* without bound on an encoder that does not exit.
C3_TeardownBounded ==
    \A s \in Sessions : (pc[s] = "cancel_wait") ~> (pc[s] # "cancel_wait")

\* C3, amended: teardown sends SIGKILL at once, with no grace period and no
\* softer signal first, and then waits with no timeout: the handler enters
\* its wait only with SIGKILL sent to a running encoder, and leaves it only
\* when the encoder has exited, which it then has reaped.
C3_KillThenWaitForExit ==
    [][\A s \in Sessions :
          /\ (pc[s] # "cancel_wait" /\ pc'[s] = "cancel_wait")
             => /\ pc[s] = "except_cancel"
                /\ ptable[process[s]].state = "running"
                /\ ptable'[process[s]].sigkill
          /\ (pc[s] = "cancel_wait" /\ pc'[s] # "cancel_wait")
             => /\ ptable[process[s]].state = "zombie"
                /\ ptable'[process[s]].state = "reaped"
                /\ pc'[s] = "finally"
      ]_vars

C3_Witness ==
    \E s \in Sessions :
        /\ pc[s] = "cancel_wait"
        /\ ptable[process[s]].state = "running"
        /\ ptable[process[s]].sigkill

\* C9: a /transcode request for a missing file or a file the probe fails
\* on is refused: no encoder is spawned for it and no view is reported;
\* when the probe succeeds a view is reported exactly when start_time = 0;
\* a session spawns at most one encoder, which no other session holds.
C9_ProbeFirstOneProcess ==
    \A s \in Sessions :
        /\ (treq[s] # NoTRequest /\ (~treq[s].exists \/ ~treq[s].probe.ok))
           => /\ tresp[s].status \in {404, 500}
              /\ tresp[s].views = 0
              /\ ViewsOf(db, treq[s].client_ip, treq[s].file_path)
                 = Cardinality({t \in Sessions \ {s} : tresp[t].views = 1})
              /\ pc[s] = "none"
              /\ process[s] = 0
              /\ SpawnedBy(s) = {}
        /\ (treq[s] # NoTRequest /\ treq[s].exists /\ treq[s].probe.ok)
           => /\ tresp[s].status = 200
              /\ tresp[s].views = 1 <=> treq[s].start_time = 0
        /\ Cardinality(SpawnedBy(s)) <= 1
        /\ process[s] # 0 => SpawnedBy(s) = {process[s]}
        /\ \A t \in Sessions \ {s} : process[s] # 0 => process[s] # process[t]

C9_Witness ==
    /\ treq[1].exists /\ ~treq[1].probe.ok /\ tresp[1].status = 500
    /\ treq[2].start_time = 0 /\ tresp[2].views = 1
    /\ process[2] # 0 /\ ptable[process[2]].state = "running"
    /\ ViewsOf(db, "10.0.0.1", "movie.mp4") = 1

\* the seek arguments of a command line before and after its -i
InputAt(cmd) == CHOOSE i \in 1..Len(cmd) : cmd[i] = <<"-i">>
SeeksIn(cmd, from, to) ==
    LET at == {i \in from..to : cmd[i] = <<"-ss">>}
    IN  [k \in 1..Cardinality(at) |->
            cmd[1 + CHOOSE i \in at : Cardinality({j \in at : j <= i}) = k]]
PreSeeks(cmd) == SeeksIn(cmd, 1, InputAt(cmd) - 1)
PostSeeks(cmd) == SeeksIn(cmd, InputAt(cmd) + 1, Len(cmd) - 1)

\* the seconds a seek argument such as 15.0 stands for
Seconds(t) == int(SubSeq(t, 1, Len(t) - 2))
RECURSIVE SumSeconds(_)
SumSeconds(ts) == IF ts = <<>> THEN 0 ELSE Seconds(Head(ts)) + SumSeconds(Tail(ts))

\* C10: the seek arguments are a function of (copy-eligible, start_time):
\* copy-eligible and start_time > 0: a coarse seek of max(0, start_time-30)
\* before the input, left out when it is 0, and a fine seek of the rest
\* after it, the two adding up to start_time; not copy-eligible and
\* start_time > 0: one seek of start_time before the input, none after;
\* start_time = 0: no seek.
C10_SeekArguments ==
    (treq[1] # NoTRequest /\ tresp[1].status = 200) =>
        LET st == treq[1].start_time
            cmd == tresp[1].cmd
            copy == lower(treq[1].probe.codec_name) \in {"h264", "avc1", "hevc", "h265"}
                    /\ treq[1].probe.has_stream
        IN  /\ (copy /\ st > 0) =>
                   /\ PreSeeks(cmd) = IF st > 30 THEN <<fstr(st - 30)>> ELSE <<>>
                   /\ PostSeeks(cmd) = IF st > 30 THEN <<fstr(30)>> ELSE <<fstr(st)>>
                   /\ SumSeconds(PreSeeks(cmd)) + SumSeconds(PostSeeks(cmd)) = st
            /\ (~copy /\ st > 0) =>
                   /\ PreSeeks(cmd) = <<fstr(st)>>
                   /\ PostSeeks(cmd) = <<>>
            /\ st = 0 => (PreSeeks(cmd) = <<>> /\ PostSeeks(cmd) = <<>>)

C10_Witness ==
    /\ treq[1].start_time = 45
    /\ treq[1].probe.codec_name = "H264"
    /\ tresp[1].status = 200
    /\ PreSeeks(tresp[1].cmd) = << <<"1", "5", ".", "0">> >>
    /\ PostSeeks(tresp[1].cmd) = << <<"3", "0", ".", "0">> >>

\* C11: a failure of the store during the view write does not change what
\* a /stream or /transcode request is answered: status, headers and body
\* (for /transcode: the command line and the generator that streams it) are
\* those of the same request with the write succeeding.
C11_StoreFailureIsolated ==
    /\ Answered => streamResp = StreamOutcome(streamReq, TRUE)
    /\ treq[1] # NoTRequest
       => /\ tresp[1] = TranscodeOutcome(treq[1], TRUE)
          /\ pc[1] = "created" <=> TranscodeOutcome(treq[1], TRUE).status = 200

\* a 206 answered in full although its view was not written
C11_Witness ==
    /\ Answered
    /\ ~dbUp
    /\ streamResp.views = 1
    /\ ViewsOf(db, streamReq.client_ip, streamReq.file_path) = 0
    /\ streamResp.status = 206
    /\ streamResp.body = <<0, 1>>

\* C12: save_playback_position changes nothing but playback_position and
\* last_watched of the rows of its pair: without such a row the store is as
\* it was and a get_playback_position of the pair answers 0 without error;
\* with one, view_count, the pair, first_watched and the number of rows are
\* as they were; and track_view never changes a playback_position.
C12_SaveTouchesPositionOnly ==
    /\ [][\A c \in PosClients, p \in Files, x \in 0..MaxPos :
             SavePosition(c, p, x) =>
                 /\ Len(db') = Len(db)
                 /\ Matching(db, c, p) = {}
                    => /\ db' = db
                       /\ get_playback_position(db', dbUp, c, p) = NoPosResponse
                 /\ \A i \in 1..Len(db) :
                        /\ db'[i].view_count = db[i].view_count
                        /\ db'[i].first_watched = db[i].first_watched
                        /\ db'[i].ip_address = db[i].ip_address
                        /\ db'[i].file_path = db[i].file_path
                        /\ i \notin Matching(db, c, p) => db'[i] = db[i]
                        /\ i \in Matching(db, c, p)
                           => /\ db'[i].playback_position = x
                              /\ db'[i].last_watched = now
          ]_vars
    /\ [][\A c \in PosClients, p \in Files :
             RecordView(c, p) =>
                 \A i \in 1..Len(db) : db'[i].playback_position = db[i].playback_position
          ]_vars
    /\ []( (posReq.op = "get" /\ Matching(db, posReq.client_ip, posReq.file_path) = {})
           => posResp = NoPosResponse )

\* a position saved for a pair without a row made no row, and the position
\* saved for the other pair outlived a later view of it
C12_Witness ==
    /\ posReq = [op |-> "save", client_ip |-> "10.0.0.1", file_path |-> "movie.avi",
                 position |-> 1]
    /\ posResp.success
    /\ Matching(db, "10.0.0.1", "movie.avi") = {}
    /\ Len(db) = 1
    /\ db[1].file_path = "movie.mp4"
    /\ db[1].view_count = 2
    /\ db[1].playback_position = 1

\* C13: no blocking read or wait of one request holds the event-loop
\* thread: while a request is in its read of the file, a session in its
\* read of the encoder's pipe, in its wait for ffprobe or in its wait for
\* the encoder, every other session that has a step to take can take it.
C13_DispatcherNeverBlocked ==
    \A t \in Sessions :
        ( /\ ENABLED GenStep(t)
          /\ \/ InStorageRead
             \/ \E s \in Sessions \ {t} : InPipeRead(s) \/ InProbe(s) \/ InWait(s) )
        => ENABLED LoopGenStep(t)

\* the pipeline a command line selects
Copies(cmd) == \E i \in 1..(Len(cmd) - 1) : cmd[i] = <<"-c:v">> /\ cmd[i + 1] = <<"copy">>
ReEncodes(cmd) == \E i \in 1..(Len(cmd) - 1) : cmd[i] = <<"-c:v">> /\ cmd[i + 1] = <<"libx264">>

\* the codec name ffprobe gave for the file of the request, in lower case
ProbedCodec == lower(treq[1].probe.codec_name)

\* a /transcode request was answered with a command line, and
\* /api/video-info answers 200 for its file
Probed == treq[1] # NoTRequest /\ tresp[1].status = 200

\* C14 as the spec states it: needs_transcode of /api/video-info is true
\* exactly when /transcode selects the re-encode pipeline for the file
\* (a file with a video stream, whose codec ffprobe names).
C14_FlagIffReEncode ==
    (Probed /\ treq[1].probe.has_stream) =>
        (get_video_metadata(treq[1]).info.needs_transcode <=> ReEncodes(tresp[1].cmd))

\* C14, amended: the copy decision is a pure, case-insensitive function of
\* the probed codec name: copy exactly for h264, avc1, hevc and h265,
\* re-encode for everything else; needs_transcode is a second list (xvid,
\* divx, mpeg4, msmpeg4, wmv, flv1, vp6), case-insensitive as well: a
\* flagged file is re-encoded, but a file in neither list, or without a
\* video stream, is re-encoded without being flagged.
C14_TwoCodecLists ==
    Probed =>
        LET cmd == tresp[1].cmd
            flag == get_video_metadata(treq[1]).info.needs_transcode
        IN  /\ get_video_metadata(treq[1]).status = 200
            /\ Copies(cmd) <=> ~ReEncodes(cmd)
            /\ Copies(cmd) <=> ( /\ treq[1].probe.has_stream
                                 /\ ProbedCodec \in {"h264", "avc1", "hevc", "h265"} )
            /\ flag <=> ( /\ treq[1].probe.has_stream
                          /\ ProbedCodec \in {"xvid", "divx", "mpeg4", "msmpeg4", "wmv",
                                               "flv1", "vp6"} )
            /\ flag => ReEncodes(cmd)
            /\ ( \/ ~treq[1].probe.has_stream
                 \/ ProbedCodec = "vp9" )
               => (~flag /\ ReEncodes(cmd))

C14_Witness ==
    /\ Probed
    /\ treq[1].probe.codec_name = "vp9"
    /\ ~get_video_metadata(treq[1]).info.needs_transcode
    /\ ReEncodes(tresp[1].cmd)

\* C15: every transcode session whose client stays connected reaches a
\* terminal state: with an encoder that goes on whenever it is not blocked
\* writing to a full pipe, the generator, once created, finishes, even when
\* the encoder writes more diagnostics than its stderr pipe holds.
C15_ConnectedSessionTerminates ==
    \A s \in Sessions : (pc[s] = "created") ~> (pc[s] = "done")

====
